---- MODULE Spec2Model ----
(***************************************************************************)
(* Model of the synchronization engine of src/src/hybrid_db.py             *)
(* (HybridDBManager): a session-scoped local SQLite cache (documents,     *)
(* users, clients, collaborator-client associations) and the remote        *)
(* spreadsheet with its users, clients and associations worksheets and one *)
(* "docs_<username>" worksheet per collaborator.                           *)
(*                                                                         *)
(* Abstractions, stated once:                                              *)
(*  - a document keeps the columns the engine itself reads or writes: id,  *)
(*    colaborador_username, cliente_nome, cliente_id, status, the three    *)
(*    validation columns and the local-only is_synced;                     *)
(*  - ids are integers: 0 is a missing id (None / empty cell), 1 is the id *)
(*    a caller supplies, 2 the id of a row that is remote from the start,  *)
(*    larger ones are values of uuid.uuid4();                              *)
(*  - SQL NULL is the string Null; str(None) is the string "None"; a key a  *)
(*    payload does not have is the string Absent;                          *)
(*  - a worksheet is its header (the set of column names of row 1; a       *)
(*    legacy layout is a prefix of the canonical one, so cells keep their  *)
(*    canonical position) and the sequence of its data rows;               *)
(*  - every remote call may fail; an operation takes the point of failure  *)
(*    as an input ("fault").                                               *)
(***************************************************************************)
EXTENDS Integers, Sequences, FiniteSets, TLC

\* ---------------------------------------------------------------- bounds
MaxUuid == 1         \* number of uuid4 values drawn in one behaviour
MaxRows == 1         \* data rows of one worksheet

\* ------------------------------------------------------------- constants
NoId == 0
Null == "<NULL>"
Absent == "<ABSENT>"

\* config.DOCS_COLS, restricted to the columns the engine reads or writes
DOCS_COLS == {"id", "colaborador_username", "cliente_nome", "cliente_id", "status",
              "data_validacao", "validado_por", "observacoes_validacao"}

\* a worksheet laid out before the cliente_id and validation columns were added
LegacyHeader == {"id", "colaborador_username", "status"}

ValidationCols == {"status", "data_validacao", "validado_por", "observacoes_validacao"}

USER_DOCS_SHEET_PREFIX == "docs_"

\* the users worksheet (username, role), in row order
RemoteUsers == << [username |-> "ana", role |-> "Usuario"],
                  [username |-> "bob", role |-> "Usuario"],
                  [username |-> "admin", role |-> "Admin"] >>

\* the rows of the users worksheet when every user last synced at t
UsersSheet(t) ==
    [i \in 1..Len(RemoteUsers) |->
        [username |-> RemoteUsers[i].username, role |-> RemoteUsers[i].role,
         last_sync_timestamp |-> t]]

\* the clients worksheet (id, nome), in row order
RemoteClients == << [id |-> "c1", nome |-> "acme"] >>

Collaborators == {"ana", "bob"}
\* usernames a caller may pass to a push: "ANA" is "ana" in another letter case
OwnerArgs == {"ana", "ANA", "bob"}
Times == {"t1"}
NewStatuses == {"Validado"}
Admins == {"admin"}
Notes == {"obs"}

\* the id a caller may supply, the id of a row an earlier session left in a
\* worksheet, and the uuid4 values: the integers above them
GivenIds == {1}
LegacyIds == {2}
Uuid(n) == 2 + n
AllIds == GivenIds \cup LegacyIds \cup { Uuid(n) : n \in 1..MaxUuid }

\* ---------------------------------------------------------------- helpers
\* SQLite COLLATE NOCASE on the usernames of the model
Lower(s) == IF s = "ANA" THEN "ana" ELSE s
NoCaseEq(a, b) == Lower(a) = Lower(b)

\* Python str(): None becomes the text "None"
Str(v) == IF v = Null THEN "None" ELSE v

_get_user_sheet_name(username) == USER_DOCS_SHEET_PREFIX \o username

\* the fault of a pull that cannot open the worksheet of this name
OpenFault(name) == "open:" \o name

SheetNames == { _get_user_sheet_name(u) : u \in OwnerArgs }

NoSheet == [exists |-> FALSE, header |-> {}, rows |-> << >>]

RECURSIVE SortById(_)
SortById(S) ==
    IF S = {} THEN << >>
    ELSE LET m == CHOOSE d \in S : \A e \in S : d.id <= e.id
         IN  <<m>> \o SortById(S \ {m})

Range(s) == { s[i] : i \in 1..Len(s) }

VARIABLES
    documentos,       \* local table documentos: a set of rows
    usuarios,         \* local table usuarios: rows in table order
    clientes,         \* local table clientes: a set of rows
    colaborador_cliente, \* local table colaborador_cliente: rows in table order
    assoc_pk,         \* the table colaborador_cliente still has its PRIMARY KEY
    users_sheet,      \* remote worksheet of the users: rows in sheet order
    assoc_sheet,      \* remote worksheet of the associations
    sheets,           \* remote worksheets docs_<username>
    nextUuid,         \* number of uuid4 values drawn so far
    unsaved_changes,  \* st.session_state['unsaved_changes']
    data_loaded,      \* st.session_state['data_loaded']
    created,          \* history: ids created here, not pushed or validated since
    last              \* history: the last operation, what it returned, the call
                      \* that failed in a push, the arguments of a push that
                      \* returned success, whether a pull showed a warning or an
                      \* error for a documents worksheet, the call that failed in
                      \* an assignment or a removal and the pairs it was given

vars == <<documentos, usuarios, clientes, colaborador_cliente, assoc_pk,
          users_sheet, assoc_sheet, sheets, nextUuid, unsaved_changes, data_loaded, created, last>>

\* the record of an operation that is no push, assignment or removal
Ran(op, ok) ==
    [op |-> op, ok |-> ok, fault |-> "none", username |-> "", ids |-> {}, pairs |-> {},
     warned |-> FALSE]

NoOp == Ran("none", FALSE)

\* --------------------------------------------------------- initial state
\* Worksheets an earlier session may have left: none for either collaborator,
\* a canonical one whose only row never got an id, a legacy one whose row has
\* an id.
LegacyRow(id, owner) ==
    [id |-> id, colaborador_username |-> owner, cliente_nome |-> "acme",
     cliente_id |-> "c1", status |-> "Cadastrado",
     data_validacao |-> "", validado_por |-> "", observacoes_validacao |-> ""]

InitSheets ==
    [ana : { NoSheet,
             [exists |-> TRUE, header |-> DOCS_COLS, rows |-> << LegacyRow(NoId, "ana") >>] },
     bob : { NoSheet,
             [exists |-> TRUE, header |-> LegacyHeader, rows |-> << LegacyRow(CHOOSE i \in LegacyIds : TRUE, "bob") >>] }]

\* the cache of a new session: the tables as _create_local_tables leaves them
InitLocal ==
    /\ documentos = {}
    /\ usuarios = << >>
    /\ clientes = {}
    /\ colaborador_cliente = << >>
    /\ assoc_pk = TRUE
    /\ nextUuid = 0
    /\ unsaved_changes = FALSE
    /\ data_loaded = FALSE
    /\ created = {}
    /\ last = NoOp

\* the documents worksheets of a spreadsheet, one choice per collaborator
DocSheets(i) ==
    [n \in SheetNames |->
        IF n = _get_user_sheet_name("ana") THEN i.ana
        ELSE IF n = _get_user_sheet_name("bob") THEN i.bob
        ELSE NoSheet]

\* an associations worksheet with its header and these rows
AssocSheet(rows) == [exists |-> TRUE, rows |-> rows]

Init ==
    /\ InitLocal
    /\ \E i \in InitSheets : sheets = DocSheets(i)
    /\ users_sheet = UsersSheet("")
    /\ assoc_sheet = AssocSheet(<< <<"ana", "c1">> >>)

\* ------------------------------------------------ add_documento_local
\* final_doc_data[col]: None for a key the payload lacks or holds as None,
\* str() of the value otherwise
Field(v) == IF v = Absent THEN Null ELSE v

\* SELECT id FROM clientes WHERE nome = ? COLLATE NOCASE: the id, Null if none
ClienteIdOf(clients, nome) ==
    IF \E c \in clients : NoCaseEq(c.nome, nome)
      THEN (CHOOSE c \in clients : NoCaseEq(c.nome, nome)).id
      ELSE Null

\* a value Python takes as false: None, a missing key or the empty string
Falsy(v) == v \in {Null, Absent, ""}

\* the payload after the lookup of cliente_id by cliente_nome: a name that
\* matches no client leaves the payload as it came
ResolveCliente(doc_data, clients) ==
    IF Falsy(doc_data.cliente_id) /\ ~Falsy(doc_data.cliente_nome)
         /\ ClienteIdOf(clients, doc_data.cliente_nome) # Null
      THEN [doc_data EXCEPT !.cliente_id = ClienteIdOf(clients, doc_data.cliente_nome)]
      ELSE doc_data

\* variant: the INSERT stores the is_synced the payload carries
FinalDocData_AsSupplied(doc_data, id) ==
    [id |-> id,
     colaborador_username |-> Field(doc_data.colaborador_username),
     cliente_nome |-> Field(doc_data.cliente_nome),
     cliente_id |-> Field(doc_data.cliente_id),
     status |-> Field(doc_data.status),
     data_validacao |-> Field(doc_data.data_validacao),
     validado_por |-> Field(doc_data.validado_por),
     observacoes_validacao |-> Field(doc_data.observacoes_validacao),
     is_synced |-> doc_data.is_synced]

\* the row the INSERT stores: every DOCS_COLS value as the payload gives it,
\* is_synced 0 whatever the payload carries
FinalDocData(doc_data, id) ==
    [id |-> id,
     colaborador_username |-> Field(doc_data.colaborador_username),
     cliente_nome |-> Field(doc_data.cliente_nome),
     cliente_id |-> Field(doc_data.cliente_id),
     status |-> Field(doc_data.status),
     data_validacao |-> Field(doc_data.data_validacao),
     validado_por |-> Field(doc_data.validado_por),
     observacoes_validacao |-> Field(doc_data.observacoes_validacao),
     is_synced |-> 0]

\* variant: a table without the PRIMARY KEY constraint
PrimaryKeyOk_NoConstraint(docs, row) == TRUE

\* PRIMARY KEY on documentos.id: the INSERT of a second row with the id fails
PrimaryKeyOk(docs, row) == \A d \in docs : d.id # row.id

\* payloads whose client is given by id and which carry no validation key
Payloads ==
    [id : {NoId} \cup GivenIds, colaborador_username : Collaborators,
     cliente_nome : {"acme"}, cliente_id : {"c1"},
     status : {"Cadastrado"}, data_validacao : {Absent}, validado_por : {Absent},
     observacoes_validacao : {Absent}, is_synced : {0, 1}]

\* payloads of one collaborator that name the client by cliente_nome alone (a
\* client of the clients worksheet, or no client at all) and come without or
\* with the three validation values
ClientPayload(id, nome, validated) ==
    [id |-> id, colaborador_username |-> "ana", cliente_nome |-> nome, cliente_id |-> Null,
     status |-> "Cadastrado",
     data_validacao |-> IF validated THEN CHOOSE t \in Times : TRUE ELSE Absent,
     validado_por |-> IF validated THEN CHOOSE a \in Admins : TRUE ELSE Absent,
     observacoes_validacao |-> IF validated THEN CHOOSE o \in Notes : TRUE ELSE Absent,
     is_synced |-> 0]

ClientPayloads ==
    { ClientPayload(id, nome, validated) :
        id \in {NoId} \cup GivenIds, nome \in {"acme", "ghost"}, validated \in BOOLEAN }

AddDocumento(doc_data) ==
      LET fresh == doc_data.id = NoId
          id == IF fresh THEN Uuid(nextUuid + 1) ELSE doc_data.id
          row == FinalDocData(ResolveCliente(doc_data, clientes), id)
          ok == PrimaryKeyOk(documentos, row)
      IN  /\ fresh => nextUuid < MaxUuid
          /\ nextUuid' = IF fresh THEN nextUuid + 1 ELSE nextUuid
          /\ documentos' = IF ok THEN documentos \cup {row} ELSE documentos
          /\ unsaved_changes' = IF ok THEN TRUE ELSE unsaved_changes
          /\ created' = IF ok THEN created \cup {id} ELSE created
          /\ last' = Ran("create", ok)
          /\ UNCHANGED <<usuarios, clientes, colaborador_cliente, assoc_pk, users_sheet,
                       assoc_sheet, sheets, data_loaded>>

add_documento_local == \E doc_data \in Payloads : AddDocumento(doc_data)

\* the same operation on the payloads that vary the client and the validation
add_documento_local_client == \E doc_data \in ClientPayloads : AddDocumento(doc_data)

\* ------------------------------------------- save_selected_docs_to_sheets
\* variant: the SELECT without its colaborador_username condition
PushSelect_AnyOwner(docs, username, ids) ==
    { d \in docs : d.id \in ids /\ d.is_synced = 0 }

\* SELECT ... WHERE colaborador_username = ? COLLATE NOCASE AND id IN (...)
\*                  AND is_synced = 0
PushSelect(docs, username, ids) ==
    { d \in docs : /\ NoCaseEq(d.colaborador_username, username)
                   /\ d.id \in ids
                   /\ d.is_synced = 0 }

\* row_dict['cliente_id'] of a row that is sent: a missing id is looked up by
\* the row's cliente_nome in the local clientes table
PushClienteId(d) ==
    IF Falsy(d.cliente_id) /\ ~Falsy(d.cliente_nome)
         /\ ClienteIdOf(clientes, d.cliente_nome) # Null
      THEN ClienteIdOf(clientes, d.cliente_nome)
      ELSE d.cliente_id

\* ordered_row_values: str() of every DOCS_COLS value of the local row
RowToSheet(d) ==
    [id |-> d.id,
     colaborador_username |-> Str(d.colaborador_username),
     cliente_nome |-> Str(d.cliente_nome),
     cliente_id |-> Str(PushClienteId(d)),
     status |-> Str(d.status),
     data_validacao |-> Str(d.data_validacao),
     validado_por |-> Str(d.validado_por),
     observacoes_validacao |-> Str(d.observacoes_validacao)]

\* UPDATE documentos SET is_synced = 1 WHERE id IN (...) AND colaborador_username = ?
\* (no COLLATE NOCASE here: the comparison is exact)
MarkSynced(docs, saved_ids, username) ==
    { IF d.id \in saved_ids /\ d.colaborador_username = username
        THEN [d EXCEPT !.is_synced = 1] ELSE d : d \in docs }

\* variant: the flag is cleared by every successful push
get_unsynced_documents_local_None(docs, username) == {}

\* get_unsynced_documents_local(username): ... = ? COLLATE NOCASE AND is_synced = 0
get_unsynced_documents_local(docs, username) ==
    { d \in docs : NoCaseEq(d.colaborador_username, username) /\ d.is_synced = 0 }

\* the spreadsheet refuses a second worksheet whose title differs only in
\* letter case from an existing one
TitleTaken(sh, username) ==
    \E u \in OwnerArgs : NoCaseEq(u, username) /\ sh[_get_user_sheet_name(u)].exists

PushFaults == {"none", "add_worksheet", "update_header", "append_rows", "local_update"}

\* variant: the local UPDATE runs before append_rows, so a failed append
\* leaves the selected rows marked
PushOutcome_MarksBeforeAppend(docs, sh, unsaved, username, ids, fault) ==
    LET name == _get_user_sheet_name(username)
        docs_to_save == PushSelect(docs, username, ids)
        data_to_append == [i \in 1..Cardinality(docs_to_save) |->
                              RowToSheet(SortById(docs_to_save)[i])]
        saved_ids_confirm == { d.id : d \in docs_to_save }
        fail(s, c) == [ok |-> FALSE, docs |-> docs, sheets |-> s, calls |-> c,
                       unsaved |-> unsaved]
        ws_found == sh[name].exists
        created_sheet == [exists |-> TRUE, header |-> {}, rows |-> << >>]
        headed_sheet == [exists |-> TRUE, header |-> DOCS_COLS, rows |-> << >>]
        c1 == IF ws_found THEN <<"worksheet">>
              ELSE <<"worksheet", "add_worksheet", "update">>
        sh1 == IF ws_found THEN sh ELSE [sh EXCEPT ![name] = headed_sheet]
        sh2 == [sh1 EXCEPT ![name].rows = @ \o data_to_append]
        docs2 == IF fault = "local_update" THEN docs
                 ELSE MarkSynced(docs, saved_ids_confirm, username)
    IN  IF ids = {} THEN fail(sh, << >>)
        ELSE IF docs_to_save = {} THEN fail(sh, << >>)
        ELSE IF ~ws_found /\ (fault = "add_worksheet" \/ TitleTaken(sh, username))
             THEN fail(sh, <<"worksheet", "add_worksheet">>)
        ELSE IF ~ws_found /\ fault = "update_header"
             THEN fail([sh EXCEPT ![name] = created_sheet],
                       <<"worksheet", "add_worksheet", "update">>)
        ELSE IF fault = "append_rows"
             THEN [ok |-> FALSE, docs |-> MarkSynced(docs, saved_ids_confirm, username),
                   sheets |-> sh1, calls |-> c1 \o <<"append_rows">>, unsaved |-> unsaved]
        ELSE [ok |-> TRUE, docs |-> docs2, sheets |-> sh2,
              calls |-> c1 \o <<"append_rows">>,
              unsaved |-> get_unsynced_documents_local(docs2, username) # {}]

\* The outcome of one call: [ok, docs, sheets, calls, unsaved]
PushOutcome(docs, sh, unsaved, username, ids, fault) ==
    LET name == _get_user_sheet_name(username)
        docs_to_save == PushSelect(docs, username, ids)
        data_to_append == [i \in 1..Cardinality(docs_to_save) |->
                              RowToSheet(SortById(docs_to_save)[i])]
        saved_ids_confirm == { d.id : d \in docs_to_save }
        fail(s, c) == [ok |-> FALSE, docs |-> docs, sheets |-> s, calls |-> c,
                       unsaved |-> unsaved]
        ws_found == sh[name].exists
        created_sheet == [exists |-> TRUE, header |-> {}, rows |-> << >>]
        headed_sheet == [exists |-> TRUE, header |-> DOCS_COLS, rows |-> << >>]
        c1 == IF ws_found THEN <<"worksheet">>
              ELSE <<"worksheet", "add_worksheet", "update">>
        sh1 == IF ws_found THEN sh ELSE [sh EXCEPT ![name] = headed_sheet]
        sh2 == [sh1 EXCEPT ![name].rows = @ \o data_to_append]
        docs2 == IF fault = "local_update" THEN docs
                 ELSE MarkSynced(docs, saved_ids_confirm, username)
    IN  IF ids = {} THEN fail(sh, << >>)
        ELSE IF docs_to_save = {} THEN fail(sh, << >>)
        ELSE IF ~ws_found /\ (fault = "add_worksheet" \/ TitleTaken(sh, username))
             THEN fail(sh, <<"worksheet", "add_worksheet">>)
        ELSE IF ~ws_found /\ fault = "update_header"
             THEN fail([sh EXCEPT ![name] = created_sheet],
                       <<"worksheet", "add_worksheet", "update">>)
        ELSE IF fault = "append_rows" THEN fail(sh1, c1 \o <<"append_rows">>)
        ELSE [ok |-> TRUE, docs |-> docs2, sheets |-> sh2,
              calls |-> c1 \o <<"append_rows">>,
              unsaved |-> get_unsynced_documents_local(docs2, username) # {}]

PushIdSets == SUBSET (GivenIds \cup {Uuid(1)})

\* users_ws.find(username, in_column=1): the first row whose username cell is
\* the text, 0 if none
FindUser(rows, username) ==
    LET hits == { i \in 1..Len(rows) : rows[i].username = username }
    IN  IF hits = {} THEN 0 ELSE CHOOSE i \in hits : \A j \in hits : i <= j

\* UPDATE usuarios SET last_sync_timestamp = ? WHERE username = ?
SyncLocal(users, username, now_str) ==
    [i \in 1..Len(users) |->
        IF users[i].username = username
          THEN [users[i] EXCEPT !.last_sync_timestamp = now_str] ELSE users[i]]

\* the calls of _update_last_sync_time_gsheet that may fail: opening the users
\* worksheet, update_cell
SyncFaults == {"sync_worksheet", "update_cell"}

\* _update_last_sync_time_gsheet(username): [ok, remote, local], the rows of
\* the users worksheet and of table usuarios after the call
UpdateLastSync(remote, local, username, now_str, fault) ==
    LET r == FindUser(remote, username)
        kept == [ok |-> FALSE, remote |-> remote, local |-> local]
    IN  IF fault = "sync_worksheet" THEN kept
        ELSE IF r = 0 THEN kept
        ELSE IF fault = "update_cell" THEN kept
        ELSE [ok |-> TRUE,
              remote |-> [remote EXCEPT ![r].last_sync_timestamp = now_str],
              local |-> SyncLocal(local, username, now_str)]

\* the push of one selection at the instant now_str, worksheets holding up to
\* cap rows
Save(username, ids, fault, now_str, cap) ==
      /\ fault # "none" => PushSelect(documentos, username, ids) # {}
      /\ fault \in {"add_worksheet", "update_header"} =>
            ~sheets[_get_user_sheet_name(username)].exists
      /\ \E out \in {PushOutcome(documentos, sheets, unsaved_changes, username, ids, fault)} :
          /\ fault \in SyncFaults => out.ok
          /\ \A n \in SheetNames : Len(out.sheets[n].rows) <= cap
          /\ documentos' = out.docs
          /\ sheets' = out.sheets
          /\ unsaved_changes' = out.unsaved
          /\ LET sync == UpdateLastSync(users_sheet, usuarios, username, now_str, fault)
             IN  /\ users_sheet' = IF out.ok THEN sync.remote ELSE users_sheet
                 /\ usuarios' = IF out.ok THEN sync.local ELSE usuarios
          /\ created' = IF out.ok THEN created \ ids ELSE created
          /\ last' = [op |-> "push", ok |-> out.ok, fault |-> fault,
                      username |-> IF out.ok THEN username ELSE "",
                      ids |-> IF out.ok THEN ids ELSE {}, pairs |-> {}, warned |-> FALSE]
          /\ UNCHANGED <<clientes, colaborador_cliente, assoc_pk, assoc_sheet,
                         nextUuid, data_loaded>>

SaveSelected(username, ids, fault) ==
    \E now_str \in Times : Save(username, ids, fault, now_str, MaxRows)

save_selected_docs_to_sheets ==
    \E username \in OwnerArgs, ids \in PushIdSets, fault \in PushFaults :
       SaveSelected(username, ids, fault)

\* ------------------------------- update_document_status_gsheet_and_local
\* the data rows of a worksheet as its readers see them: row 1 is always
\* taken as the header, so a worksheet left without one loses its first row
DataRows(ws) == IF ws.header = {} /\ ws.rows # << >> THEN Tail(ws.rows) ELSE ws.rows
FirstDataRow(ws) == IF ws.header = {} /\ ws.rows # << >> THEN 2 ELSE 1

\* ws.find(doc_id, in_column=<id column>): the first row holding the id, 0 if none
FindRow(ws, doc_id) ==
    LET hits == { i \in FirstDataRow(ws)..Len(ws.rows) : ws.rows[i].id = doc_id }
    IN  IF hits = {} THEN 0 ELSE CHOOSE i \in hits : \A j \in hits : i <= j

\* update_map: the four cells of a validation
UpdateMap(new_status, now_str, admin_username, observacoes) ==
    [status |-> new_status, data_validacao |-> now_str,
     validado_por |-> admin_username, observacoes_validacao |-> observacoes]

\* variant: a batch that carries the status cell alone
BatchUpdate_StatusOnly(row, header, update_map) ==
    [c \in DOMAIN row |->
        IF c = "status" /\ c \in header THEN update_map[c] ELSE row[c]]

\* ws.batch_update(updates_batch): only the columns named in the header
BatchUpdate(row, header, update_map) ==
    [c \in DOMAIN row |->
        IF c \in DOMAIN update_map /\ c \in header THEN update_map[c] ELSE row[c]]

\* UPDATE documentos SET status = ?, data_validacao = ?, validado_por = ?,
\*        observacoes_validacao = ?, is_synced = 1 WHERE id = ?
UpdateLocal(docs, doc_id, update_map) ==
    { IF d.id = doc_id
        THEN [d EXCEPT !.status = update_map.status,
                       !.data_validacao = update_map.data_validacao,
                       !.validado_por = update_map.validado_por,
                       !.observacoes_validacao = update_map.observacoes_validacao,
                       !.is_synced = 1]
        ELSE d : d \in docs }

\* variant: an id missing from the cache is looked for in every
\* collaborator's worksheet
ValidateSheets_SearchRemote(docs, doc_id) ==
    IF \A e \in docs : e.id # doc_id
      THEN { _get_user_sheet_name(u) : u \in Collaborators }
      ELSE { _get_user_sheet_name(d.colaborador_username) : d \in { e \in docs : e.id = doc_id } }

\* SELECT colaborador_username FROM documentos WHERE id = ?: the worksheets
\* the validation may touch (none when the id is not in the cache)
ValidateSheets(docs, doc_id) ==
    { _get_user_sheet_name(d.colaborador_username) : d \in { e \in docs : e.id = doc_id } }

\* "worksheet" stands for a failure of any of the reads (worksheet,
\* row_values, find): they all return False with nothing written
ValidateFaults == {"none", "worksheet", "batch_update", "local_update"}

\* The outcome of one call: [ok, docs, sheets, calls]
ValidateOutcome(docs, sh, doc_id, update_map, fault) ==
    LET targets == ValidateSheets(docs, doc_id)
        fail(s, c) == [ok |-> FALSE, docs |-> docs, sheets |-> s, calls |-> c]
    IN  IF targets = {} THEN fail(sh, << >>)
        ELSE
        LET name == CHOOSE n \in targets : TRUE
            ws == sh[name]
            r == FindRow(ws, doc_id)
            cols == DOMAIN update_map \cap ws.header
            sh1 == IF cols = {} THEN sh
                   ELSE [sh EXCEPT ![name].rows[r] = BatchUpdate(@, ws.header, update_map)]
            c1 == <<"worksheet", "row_values", "find">>
            c2 == IF cols = {} THEN c1 ELSE c1 \o <<"batch_update">>
        IN  IF name \notin DOMAIN sh THEN fail(sh, <<"worksheet">>)
            ELSE IF ~ws.exists \/ fault = "worksheet" THEN fail(sh, <<"worksheet">>)
            ELSE IF "id" \notin ws.header THEN fail(sh, <<"worksheet", "row_values">>)
            ELSE IF r = 0 THEN fail(sh, c1)
            ELSE IF fault = "batch_update" /\ cols # {} THEN fail(sh, c2)
            ELSE IF fault = "local_update" THEN fail(sh1, c2)
            ELSE [ok |-> TRUE, docs |-> UpdateLocal(docs, doc_id, update_map),
                  sheets |-> sh1, calls |-> c2]

UpdateMaps ==
    { UpdateMap(new_status, now_str, admin_username, observacoes) :
        new_status \in NewStatuses, now_str \in Times,
        admin_username \in Admins, observacoes \in Notes }

UpdateStatus(doc_id, update_map, fault) ==
      /\ fault # "none" =>
            LET reached == ValidateOutcome(documentos, sheets, doc_id, update_map, "none")
            IN  IF fault = "worksheet" THEN reached.calls # << >> ELSE reached.ok
      /\ \E out \in {ValidateOutcome(documentos, sheets, doc_id, update_map, fault)} :
          /\ documentos' = out.docs
          /\ sheets' = out.sheets
          /\ created' = IF out.ok THEN created \ {doc_id} ELSE created
          /\ last' = Ran("validate", out.ok)
          /\ UNCHANGED <<usuarios, clientes, colaborador_cliente, assoc_pk, users_sheet,
                       assoc_sheet, nextUuid, unsaved_changes, data_loaded>>

update_document_status_gsheet_and_local ==
    \E doc_id \in AllIds, update_map \in UpdateMaps, fault \in ValidateFaults :
       UpdateStatus(doc_id, update_map, fault)

\* ------------------------------------------------ load_data_for_session
\* one row of a worksheet as df.astype(str) hands it to SQLite: a column the
\* header lacks reads "None"; a missing id takes the uuid4 value u
FromSheet(row, header, u) ==
    [id |-> IF "id" \in header /\ row.id # NoId THEN row.id ELSE u,
     colaborador_username |->
        IF "colaborador_username" \in header THEN row.colaborador_username ELSE "None",
     cliente_nome |-> IF "cliente_nome" \in header THEN row.cliente_nome ELSE "None",
     cliente_id |-> IF "cliente_id" \in header THEN row.cliente_id ELSE "None",
     status |-> IF "status" \in header THEN row.status ELSE "None",
     data_validacao |-> IF "data_validacao" \in header THEN row.data_validacao ELSE "None",
     validado_por |-> IF "validado_por" \in header THEN row.validado_por ELSE "None",
     observacoes_validacao |->
        IF "observacoes_validacao" \in header THEN row.observacoes_validacao ELSE "None",
     is_synced |-> 1]

\* mask_missing_id: the rows of the frame that get a generated id
MissingId(row, header) == "id" \notin header \/ row.id = NoId

\* the frame built from the data rows, ids generated in row order from uuid n+1
RECURSIVE BuildFrame(_, _, _)
BuildFrame(data, header, n) ==
    IF data = << >> THEN << >>
    ELSE IF MissingId(Head(data), header)
         THEN <<FromSheet(Head(data), header, Uuid(n + 1))>> \o BuildFrame(Tail(data), header, n + 1)
         ELSE <<FromSheet(Head(data), header, NoId)>> \o BuildFrame(Tail(data), header, n)

CountMissing(data, header) ==
    Cardinality({ i \in 1..Len(data) : MissingId(data[i], header) })

\* df.to_sql('documentos', if_exists='append'): one transaction; a repeated
\* primary key raises IntegrityError and the whole frame is rolled back
ToSqlAppend(docs, frame) ==
    LET ids == { frame[i].id : i \in 1..Len(frame) }
        clash == \/ Cardinality(ids) # Len(frame)
                 \/ \E d \in docs : d.id \in ids
    IN  IF clash THEN docs ELSE docs \cup Range(frame)

\* get_cliente_id: with a clientes table that is not empty, a cliente_id that
\* reads '' or 'None' is looked up by cliente_nome (NULL when no client has
\* the name)
FillClienteId(d, clients) ==
    IF clients # {} /\ d.cliente_id \in {"", "None"}
      THEN [d EXCEPT !.cliente_id = ClienteIdOf(clients, d.cliente_nome)]
      ELSE d

\* _load_sheet_to_local_table(sheet_name, "documentos", DOCS_COLS, 'append'):
\* [docs, n, clients, warn] after the load; failed names the worksheet whose
\* read fails or that cannot be opened; warn: a load has shown an error
LoadDocsSheet(acc, sh, name, failed) ==
    LET ws == sh[name]
        data == DataRows(ws)
        raw == BuildFrame(data, ws.header, acc.n)
        frame == [i \in 1..Len(raw) |-> FillClienteId(raw[i], acc.clients)]
        loaded == ToSqlAppend(acc.docs, frame)
    IN  IF ~ws.exists THEN acc
        ELSE IF failed \in {name, OpenFault(name)} THEN [acc EXCEPT !.warn = TRUE]
        ELSE IF data = << >> THEN acc
        ELSE [acc EXCEPT !.docs = loaded,
                         !.n = acc.n + CountMissing(data, ws.header),
                         !.warn = acc.warn \/ loaded = acc.docs]

RECURSIVE LoadDocsSheets(_, _, _, _)
LoadDocsSheets(acc, sh, names, failed) ==
    IF names = << >> THEN acc
    ELSE LoadDocsSheets(LoadDocsSheet(acc, sh, Head(names), failed), sh, Tail(names), failed)

\* user_sheets_to_load: by role, from the local usuarios table
RECURSIVE SheetsOfCollaborators(_)
SheetsOfCollaborators(users) ==
    IF users = << >> THEN << >>
    ELSE (IF Head(users).role = "Usuario"
            THEN <<_get_user_sheet_name(Head(users).username)>> ELSE << >>)
         \o SheetsOfCollaborators(Tail(users))

UserSheetsToLoad(users, username, role) ==
    IF role \in {"Admin", "Cliente"} THEN SheetsOfCollaborators(users)
    ELSE IF role = "Usuario" THEN <<_get_user_sheet_name(username)>>
    ELSE << >>

\* "users": reading the users worksheet raises (st.stop()); "users_missing":
\* the users worksheet is not reachable and the load is skipped; "clients":
\* reading the clients worksheet raises (st.stop()); a worksheet name: reading
\* that documents worksheet fails
PullFaults == {"none", "users", "users_missing", "clients"}
                 \cup { _get_user_sheet_name(u) : u \in Collaborators }

\* the other ways a load can go: the clients or the associations worksheet is
\* not reachable and its load is skipped, reading the associations worksheet
\* raises (a message is printed), a documents worksheet cannot be opened
\* (_get_worksheet shows an error and the load is skipped)
CentralFaults == {"clients_missing", "assoc", "assoc_missing"}
                    \cup { OpenFault(_get_user_sheet_name(u)) : u \in Collaborators }

\* local table colaborador_cliente and its PRIMARY KEY after the load of the
\* associations worksheet in 'replace' mode: a worksheet with data rows is
\* written by to_sql(if_exists='replace'), which drops the table and creates
\* it again from the frame, without constraints; one without data rows only
\* empties the table; one that is skipped or fails leaves it alone
LoadAssoc(rows, pk, ws, fault) ==
    IF fault \in {"assoc", "assoc_missing"} \/ ~ws.exists THEN [rows |-> rows, pk |-> pk]
    ELSE IF ws.rows = << >> THEN [rows |-> << >>, pk |-> pk]
    ELSE [rows |-> ws.rows, pk |-> FALSE]

\* the pull of one identity, ids generated up to cap
Load(username, role, fault, cap) ==
      LET users1 == IF fault = "users_missing" THEN usuarios ELSE users_sheet
          clients1 == IF fault = "clients_missing" THEN clientes ELSE Range(RemoteClients)
          assoc1 == LoadAssoc(colaborador_cliente, assoc_pk, assoc_sheet, fault)
          names == UserSheetsToLoad(users1, username, role)
          aborted == fault \in {"users", "clients"}
          start == [docs |-> {}, n |-> nextUuid, clients |-> clients1, warn |-> FALSE]
      IN  /\ fault \in SheetNames => (fault \in Range(names) /\ sheets[fault].exists)
          /\ \A n \in SheetNames :
                fault = OpenFault(n) => (n \in Range(names) /\ sheets[n].exists)
          /\ \E out \in {LoadDocsSheets(start, sheets, names, fault)} :
              /\ aborted \/ out.n <= cap
              /\ usuarios' = IF fault = "users" THEN usuarios ELSE users1
              /\ clientes' = IF aborted THEN clientes ELSE clients1
              /\ colaborador_cliente' = IF aborted THEN colaborador_cliente ELSE assoc1.rows
              /\ assoc_pk' = IF aborted THEN assoc_pk ELSE assoc1.pk
              /\ documentos' = IF aborted THEN documentos ELSE out.docs
              /\ nextUuid' = IF aborted THEN nextUuid ELSE out.n
              /\ data_loaded' = IF aborted THEN data_loaded ELSE TRUE
              /\ created' = IF aborted THEN created ELSE {}
              /\ last' = [Ran("pull", ~aborted) EXCEPT !.warned = ~aborted /\ out.warn]
              /\ UNCHANGED <<sheets, users_sheet, assoc_sheet, unsaved_changes>>

LoadData(username, role, fault) == Load(username, role, fault, MaxUuid)

load_data_for_session ==
    \E i \in 1..Len(RemoteUsers), fault \in PullFaults :
       LoadData(RemoteUsers[i].username, RemoteUsers[i].role, fault)

Next ==
    \/ add_documento_local
    \/ save_selected_docs_to_sheets
    \/ update_document_status_gsheet_and_local
    \/ load_data_for_session

Spec == Init /\ [][Next]_vars

\* ------------------------------------ creates that vary client and validation
\* the pull with the faults of the central worksheets and of opening a
\* documents worksheet
load_data_central ==
    \E i \in 1..Len(RemoteUsers), fault \in {"none"} \cup CentralFaults :
       LoadData(RemoteUsers[i].username, RemoteUsers[i].role, fault)

\* the push with the faults of the last-sync update
save_selected_docs_sync ==
    \E username \in OwnerArgs, ids \in PushIdSets, fault \in {"none"} \cup SyncFaults :
       SaveSelected(username, ids, fault)

NextCreate ==
    \/ add_documento_local_client
    \/ load_data_central
    \/ save_selected_docs_sync

SpecCreate == Init /\ [][NextCreate]_vars

\* -------------------------------------------------------- Autenticador.login
\* a user of role Cliente: the username is the name of a client
ClientUser == [username |-> "acme", role |-> "Cliente", last_sync_timestamp |-> ""]

\* the users worksheet with the client user in its last row
InitLogin ==
    /\ InitLocal
    /\ \E i \in InitSheets : sheets = DocSheets(i)
    /\ users_sheet = UsersSheet("") \o <<ClientUser>>
    /\ assoc_sheet = AssocSheet(<< <<"ana", "c1">> >>)

\* _clear_session: the session keys are deleted
ClearSession ==
    /\ data_loaded' = FALSE
    /\ unsaved_changes' = FALSE

\* login(username, password) with the password of the user: a user of role
\* Cliente is looked up by name in the local clientes table before anything
\* is loaded; without a row the session is cleared and the login fails; every
\* other login goes on to the pull
Login(username, role) ==
    IF role = "Cliente" /\ ClienteIdOf(clientes, username) = Null
      THEN /\ ClearSession
           /\ last' = Ran("login", FALSE)
           /\ UNCHANGED <<documentos, usuarios, clientes, colaborador_cliente, assoc_pk,
                          users_sheet, assoc_sheet, sheets, nextUuid, created>>
      ELSE LoadData(username, role, "none")

login ==
    \E i \in 1..Len(users_sheet) : Login(users_sheet[i].username, users_sheet[i].role)

NextLogin ==
    \/ login
    \/ add_documento_local
    \/ save_selected_docs_to_sheets

SpecLogin == InitLogin /\ [][NextLogin]_vars

\* ------------------------------------------------ creates and pushes alone
MaxPushRows == 2     \* data rows of one worksheet in a behaviour of pushes

\* a spreadsheet that has no documents worksheet yet
InitPush ==
    /\ InitLocal
    /\ sheets = [n \in SheetNames |-> NoSheet]
    /\ users_sheet = UsersSheet("")
    /\ assoc_sheet = AssocSheet(<< >>)

\* the push, its remote calls succeeding, the local UPDATE failing or not
save_selected_docs_again ==
    \E username \in OwnerArgs, ids \in PushIdSets, fault \in {"none", "local_update"},
       now_str \in Times :
       Save(username, ids, fault, now_str, MaxPushRows)

NextPush ==
    \/ add_documento_local
    \/ save_selected_docs_again

SpecPush == InitPush /\ [][NextPush]_vars

\* ------------- assign_clients_to_collab / unassign_clients_from_collab
MaxAssocRows == 2    \* rows of table colaborador_cliente and of its worksheet

\* the collaborator names and the lists of client ids a caller may pass
AssocUsers == {"ana", "ANA"}
ClientIdLists == { <<"c1">>, <<"c2">>, <<"c1", "c2">> }

\* the pairs a call names
PairsOf(colaborador_username, client_ids) ==
    { <<colaborador_username, c>> : c \in Range(client_ids) }

\* INSERT OR IGNORE INTO colaborador_cliente, one client id after the other:
\* [rows, added], the table and assignments_to_add_gsheet; a row is ignored
\* only while the table has its PRIMARY KEY and holds the very pair
RECURSIVE InsertOrIgnore(_, _, _, _)
InsertOrIgnore(rows, pk, colaborador_username, client_ids) ==
    IF client_ids = << >> THEN [rows |-> rows, added |-> << >>]
    ELSE LET pair == <<colaborador_username, Head(client_ids)>>
             ignored == pk /\ pair \in Range(rows)
             rest == InsertOrIgnore(IF ignored THEN rows ELSE Append(rows, pair), pk,
                                    colaborador_username, Tail(client_ids))
         IN  [rows |-> rest.rows,
              added |-> (IF ignored THEN << >> ELSE <<pair>>) \o rest.added]

\* "assoc_worksheet": the associations worksheet cannot be opened
AssignFaults == {"none", "assoc_worksheet", "append_rows"}

\* The outcome of one call: [ok, local, ws]
AssignOutcome(local, pk, ws, colaborador_username, client_ids, fault) ==
    LET ins == InsertOrIgnore(local, pk, colaborador_username, client_ids)
    IN  IF client_ids = << >> THEN [ok |-> FALSE, local |-> local, ws |-> ws]
        ELSE IF ins.added = << >> THEN [ok |-> TRUE, local |-> ins.rows, ws |-> ws]
        ELSE IF ~ws.exists \/ fault = "assoc_worksheet"
             THEN [ok |-> FALSE, local |-> ins.rows, ws |-> ws]
        ELSE IF fault = "append_rows" THEN [ok |-> FALSE, local |-> ins.rows, ws |-> ws]
        ELSE [ok |-> TRUE, local |-> ins.rows, ws |-> [ws EXCEPT !.rows = @ \o ins.added]]

Assign(colaborador_username, client_ids, fault) ==
      /\ fault # "none" =>
            InsertOrIgnore(colaborador_cliente, assoc_pk, colaborador_username,
                           client_ids).added # << >>
      /\ \E out \in {AssignOutcome(colaborador_cliente, assoc_pk, assoc_sheet,
                                    colaborador_username, client_ids, fault)} :
          /\ Len(out.local) <= MaxAssocRows
          /\ Len(out.ws.rows) <= MaxAssocRows
          /\ colaborador_cliente' = out.local
          /\ assoc_sheet' = out.ws
          /\ last' = [Ran("assign", out.ok) EXCEPT
                         !.fault = fault,
                         !.pairs = PairsOf(colaborador_username, client_ids)]
          /\ UNCHANGED <<documentos, usuarios, clientes, assoc_pk, users_sheet, sheets,
                         nextUuid, unsaved_changes, data_loaded, created>>

assign_clients_to_collab ==
    \E colaborador_username \in AssocUsers, client_ids \in ClientIdLists,
       fault \in AssignFaults :
       Assign(colaborador_username, client_ids, fault)

\* DELETE FROM colaborador_cliente WHERE colaborador_username = ? COLLATE NOCASE
\*        AND cliente_id IN (...)
LocalDelete(rows, colaborador_username, client_ids) ==
    SelectSeq(rows, LAMBDA r : ~(NoCaseEq(r[1], colaborador_username)
                                  /\ r[2] \in Range(client_ids)))

\* rows_to_delete_indices_gsheet, as indices of the data rows
RowsToDelete(rows, colaborador_username, client_ids) ==
    { i \in 1..Len(rows) : /\ Lower(rows[i][1]) = Lower(colaborador_username)
                           /\ rows[i][2] \in Range(client_ids) }

\* ws.delete_rows(row) for every index of gone, the highest first
RECURSIVE DeleteRows(_, _)
DeleteRows(rows, gone) ==
    IF gone = {} THEN rows
    ELSE LET m == CHOOSE i \in gone : \A j \in gone : j <= i
         IN  DeleteRows(SubSeq(rows, 1, m - 1) \o SubSeq(rows, m + 1, Len(rows)), gone \ {m})

UnassignFaults == {"none", "assoc_worksheet", "get_all_records"}

\* The outcome of one call: [ok, local, ws]; failing: the rows whose
\* delete_rows call raises
UnassignOutcome(local, ws, colaborador_username, client_ids, fault, failing) ==
    LET local1 == LocalDelete(local, colaborador_username, client_ids)
        local_delete_count == Len(local) - Len(local1)
        gone == RowsToDelete(ws.rows, colaborador_username, client_ids) \ failing
    IN  IF client_ids = << >> THEN [ok |-> FALSE, local |-> local, ws |-> ws]
        ELSE IF ~ws.exists \/ fault = "assoc_worksheet"
             THEN [ok |-> local_delete_count = 0, local |-> local1, ws |-> ws]
        ELSE IF fault = "get_all_records" THEN [ok |-> FALSE, local |-> local1, ws |-> ws]
        ELSE [ok |-> TRUE, local |-> local1,
              ws |-> [ws EXCEPT !.rows = DeleteRows(@, gone)]]

Unassign(colaborador_username, client_ids, fault, failing) ==
      /\ failing \subseteq RowsToDelete(assoc_sheet.rows, colaborador_username, client_ids)
      /\ failing # {} => fault = "none"
      /\ \E out \in {UnassignOutcome(colaborador_cliente, assoc_sheet, colaborador_username,
                                      client_ids, fault, failing)} :
          /\ colaborador_cliente' = out.local
          /\ assoc_sheet' = out.ws
          /\ last' = [Ran("unassign", out.ok) EXCEPT
                         !.fault = IF failing # {} THEN "delete_rows" ELSE fault,
                         !.pairs = PairsOf(colaborador_username, client_ids)]
          /\ UNCHANGED <<documentos, usuarios, clientes, assoc_pk, users_sheet, sheets,
                         nextUuid, unsaved_changes, data_loaded, created>>

unassign_clients_from_collab ==
    \E colaborador_username \in AssocUsers, client_ids \in ClientIdLists,
       fault \in UnassignFaults, failing \in SUBSET (1..MaxAssocRows) :
       Unassign(colaborador_username, client_ids, fault, failing)

\* a spreadsheet without documents worksheets whose associations worksheet
\* holds its header alone
InitAssoc ==
    /\ InitLocal
    /\ sheets = [n \in SheetNames |-> NoSheet]
    /\ users_sheet = UsersSheet("")
    /\ assoc_sheet = AssocSheet(<< >>)

NextAssoc ==
    \/ assign_clients_to_collab
    \/ unassign_clients_from_collab
    \/ load_data_central

SpecAssoc == InitAssoc /\ [][NextAssoc]_vars

\* ------------------------------------------------- one pull after another
MaxReloadUuid == 4   \* number of uuid4 values drawn in one behaviour of reloads

\* the worksheets a collaborator may have: none, or one of either layout that
\* is empty or holds one row with or without an id
ReloadSheets(owner) ==
    {NoSheet} \cup
    { [exists |-> TRUE, header |-> h, rows |-> r] :
         h \in {DOCS_COLS, LegacyHeader},
         r \in {<< >>} \cup { <<LegacyRow(id, owner)>> : id \in {NoId} \cup GivenIds \cup LegacyIds } }

InitReload ==
    /\ InitLocal
    /\ \E i \in [ana : ReloadSheets("ana"), bob : ReloadSheets("bob")] : sheets = DocSheets(i)
    /\ users_sheet = UsersSheet("")
    /\ assoc_sheet = AssocSheet(<< <<"ana", "c1">> >>)

\* the pull of an administrator, every read succeeding
reload_data_for_session ==
    \E i \in 1..Len(RemoteUsers) :
       /\ RemoteUsers[i].role = "Admin"
       /\ Load(RemoteUsers[i].username, RemoteUsers[i].role, "none", MaxReloadUuid)

NextReload == reload_data_for_session

SpecReload == InitReload /\ [][NextReload]_vars

\* ======================================================================
\* Properties
\* ======================================================================
OwnerSheet(d) == _get_user_sheet_name(d.colaborador_username)

\* the ids of the rows of a worksheet, header row of a headerless one included
RemoteIds(ws) == { ws.rows[i].id : i \in 1..Len(ws.rows) } \ {NoId}

\* the id a create with this payload stores
CreatedId(doc_data) == IF doc_data.id = NoId THEN Uuid(nextUuid + 1) ELSE doc_data.id

\* this step is a successful push whose id set holds id
PushedNow(id) == last'.op = "push" /\ last'.ok /\ id \in last'.ids

\* this step is a successful validation of id
ValidatedNow(id) ==
    /\ last'.op = "validate" /\ last'.ok
    /\ \E update_map \in UpdateMaps, fault \in ValidateFaults :
          UpdateStatus(id, update_map, fault)

\* a create stores the row Pending whatever is_synced the payload carries
StoredPending ==
    last'.op = "create" /\ last'.ok =>
       \A doc_data \in Payloads :
          AddDocumento(doc_data) =>
             \E e \in documentos' : e.id = CreatedId(doc_data) /\ e.is_synced = 0

\* the local row of id goes from Pending to Synced in this step
BecomesSynced(id) ==
    /\ \E d \in documentos : d.id = id /\ d.is_synced = 0
    /\ \E e \in documentos' : e.id = id /\ e.is_synced = 1

C2_NoPartialPush ==
    [][ last'.op = "push" =>
          /\ last'.fault \in {"add_worksheet", "update_header", "append_rows"} => ~last'.ok
          /\ ~last'.ok =>
                /\ documentos' = documentos
                /\ \A d \in documentos : d.is_synced = 0 => d \in documentos' ]_vars

\* a push has failed while a Pending row was in the cache
C2_Witness ==
    /\ last.op = "push" /\ ~last.ok
    /\ last.fault \in {"update_header", "append_rows"}
    /\ \E d \in documentos : d.is_synced = 0
    /\ \E n \in SheetNames : sheets[n].exists /\ sheets[n].rows = << >>

\* C3 as stated: after a push that returns success for id set S and owner O,
\* every row of S that was Pending for O is Synced and no row outside S changed.
C3_PushMarksExactlyS ==
    [][ last'.op = "push" /\ last'.ok =>
          /\ \A d \in documentos :
                (/\ Lower(d.colaborador_username) = Lower(last'.username)
                 /\ d.id \in last'.ids
                 /\ d.is_synced = 0) => [d EXCEPT !.is_synced = 1] \in documentos'
          /\ \A d \in documentos : d.id \notin last'.ids => d \in documentos' ]_vars

C5_SyncedHasRemoteRow ==
    \A d \in documentos :
       d.is_synced = 1 =>
          /\ OwnerSheet(d) \in SheetNames
          /\ d.id \in RemoteIds(sheets[OwnerSheet(d)])

\* C6 as stated: no local row that is Pending has a row with its id in any
\* worksheet.
C6_PendingNotRemote ==
    \A d \in documentos :
       d.is_synced = 0 => \A n \in SheetNames : d.id \notin RemoteIds(sheets[n])

\* C7: the local table holds at most one row per id.
C7_UniqueIds ==
    \A d, e \in documentos : d.id = e.id => d = e

\* a create was refused because its id is already in the table
C7_Witness ==
    /\ last.op = "create" /\ ~last.ok
    /\ documentos # {}

\* the local row and the remote row of id after a step
LocalRow(docs, id) == CHOOSE d \in docs : d.id = id
RemoteRow(sh, d) == sh[OwnerSheet(d)].rows[FindRow(sh[OwnerSheet(d)], d.id)]

\* C8 as stated: after a validation that returns success the local row and the
\* remote row hold the same status, timestamp, validator and notes, whatever
\* the layout of the worksheet, and the local row is Synced.
C8_ValidationMirrors ==
    [][ last'.op = "validate" /\ last'.ok =>
          \A doc_id \in AllIds, update_map \in UpdateMaps, fault \in ValidateFaults :
             UpdateStatus(doc_id, update_map, fault) =>
                LET d == LocalRow(documentos', doc_id)
                    ws == sheets'[OwnerSheet(d)]
                IN  /\ d.is_synced = 1
                    /\ \A c \in ValidationCols :
                          /\ d[c] = update_map[c]
                          /\ c \in ws.header
                          /\ RemoteRow(sheets', d)[c] = d[c] ]_vars

\* C8 amended: after a validation that returns success the local row holds the
\* new status, timestamp, validator and notes and is Synced, and the remote row
\* holds the same value in each of these four columns that its worksheet has.
C8_ValidationMirrorsPresentColumns ==
    [][ last'.op = "validate" /\ last'.ok =>
          \A doc_id \in AllIds, update_map \in UpdateMaps, fault \in ValidateFaults :
             UpdateStatus(doc_id, update_map, fault) =>
                LET d == LocalRow(documentos', doc_id)
                    ws == sheets'[OwnerSheet(d)]
                IN  /\ d.is_synced = 1
                    /\ \A c \in ValidationCols : d[c] = update_map[c]
                    /\ \A c \in ValidationCols \cap ws.header :
                          RemoteRow(sheets', d)[c] = d[c] ]_vars

\* a validation has succeeded on a row whose worksheet has every column
C8_Witness ==
    /\ last.op = "validate" /\ last.ok
    /\ \E d \in documentos :
          /\ d.status \in NewStatuses /\ d.validado_por \in Admins
          /\ OwnerSheet(d) \in SheetNames
          /\ sheets[OwnerSheet(d)].header = DOCS_COLS
          /\ \E i \in 1..Len(sheets[OwnerSheet(d)].rows) :
                sheets[OwnerSheet(d)].rows[i].validado_por \in Admins

\* C9: a validation of an id that is not in the local table returns failure,
\* makes no remote call and changes neither store.
C9_ValidateUnknownId ==
    [][ last'.op = "validate" =>
          \A doc_id \in AllIds, update_map \in UpdateMaps, fault \in ValidateFaults :
             (UpdateStatus(doc_id, update_map, fault)
                /\ \A d \in documentos : d.id # doc_id) =>
                /\ ~last'.ok
                /\ ValidateOutcome(documentos, sheets, doc_id, update_map, fault).calls = << >>
                /\ documentos' = documentos
                /\ sheets' = sheets ]_vars

\* a validation has failed on an empty cache while a worksheet holds a row
\* with an id
C9_Witness ==
    /\ last.op = "validate" /\ ~last.ok
    /\ documentos = {}
    /\ \E n \in SheetNames : RemoteIds(sheets[n]) # {}

\* C10 as stated: a validation that returns failure has modified neither the
\* local row nor the remote row.
C10_FailedValidateChangesNothing ==
    [][ last'.op = "validate" /\ ~last'.ok =>
          documentos' = documentos /\ sheets' = sheets ]_vars

\* ----------------------------------------------------------------------
\* the payload names a client by cliente_nome alone and the cache has none of
\* that name
Unresolved(doc_data) ==
    /\ Falsy(doc_data.cliente_id)
    /\ ~Falsy(doc_data.cliente_nome)
    /\ ClienteIdOf(clientes, doc_data.cliente_nome) = Null

\* C11: a create whose payload has no client id and a client name that
\* matches no client of the local cache is rejected: it returns failure,
\* inserts no document and does not raise the unsaved-data flag.
C11_UnresolvedClientRejected ==
    [][\A doc_data \in ClientPayloads :
          (Unresolved(doc_data) /\ AddDocumento(doc_data)) =>
             /\ ~last'.ok
             /\ documentos' = documentos
             /\ unsaved_changes' = unsaved_changes]_vars

\* ----------------------------------------------------------------------
\* C12: every document stored by a create has its three validation fields
\* null, also when the payload supplies values for them.
C12_CreatedValidationNull ==
    [][(last'.op = "create" /\ last'.ok) =>
          \A d \in documentos' \ documentos :
             /\ d.data_validacao = Null
             /\ d.validado_por = Null
             /\ d.observacoes_validacao = Null]_vars

\* ----------------------------------------------------------------------
\* the push of an empty list makes no remote call and changes no state
EmptyPushIsNoOp(username) ==
    /\ PushOutcome(documentos, sheets, unsaved_changes, username, {}, "none").calls = << >>
    /\ UNCHANGED <<documentos, usuarios, clientes, colaborador_cliente, assoc_pk,
                   users_sheet, assoc_sheet, sheets, nextUuid, unsaved_changes, data_loaded>>

\* C13: a push with an empty selection returns success as a no-op: it makes
\* no remote call and changes no local or remote state.
C13_EmptyPushSucceeds ==
    [][\A username \in OwnerArgs :
          SaveSelected(username, {}, "none") => (last'.ok /\ EmptyPushIsNoOp(username))]_vars

\* the faults of a pull that stand for a central worksheet (users, clients,
\* associations) whose read fails or that cannot be reached
CentralFailures ==
    {"users", "users_missing", "clients", "clients_missing", "assoc", "assoc_missing"}

\* ----------------------------------------------------------------------
\* C14: when the load of one of the three central collections fails or the
\* collection cannot be reached, the pull aborts: the documents table is not
\* cleared and reloaded and the pull does not complete as a successful one.
C14_CentralFailureAborts ==
    [][\A i \in 1..Len(RemoteUsers), fault \in CentralFailures :
          LoadData(RemoteUsers[i].username, RemoteUsers[i].role, fault) =>
             /\ ~last'.ok
             /\ documentos' = documentos
             /\ data_loaded' = data_loaded]_vars

\* ----------------------------------------------------------------------
\* C15: after a pull that fails the session's data_loaded indicator is not
\* true, also when an earlier pull of the session had succeeded.
C15_FailedPullNotLoaded ==
    [][(last'.op = "pull" /\ ~last'.ok) => ~data_loaded']_vars

\* the rows of table documentos that belong to a collaborator
DocsOf(docs, u) == { d \in docs : d.colaborador_username = u }

\* the worksheet of collaborator u is there and its read does not fail
Loadable(u, fault) ==
    sheets[_get_user_sheet_name(u)].exists /\ fault # _get_user_sheet_name(u)

\* ----------------------------------------------------------------------
\* C16: in a pull over several collaborators a per-owner collection that is
\* missing or fails to load does not abort the pull: the pull completes, that
\* collaborator contributes no document, a warning is recorded and every
\* document of the other collaborators' collections is present locally.
C16_PerOwnerFailureTolerated ==
    [][\A i \in 1..Len(RemoteUsers),
          fault \in {"none"} \cup { _get_user_sheet_name(u) : u \in Collaborators } :
          (RemoteUsers[i].role = "Admin"
             /\ LoadData(RemoteUsers[i].username, RemoteUsers[i].role, fault)) =>
          \A u \in Collaborators :
             ~Loadable(u, fault) =>
                /\ last'.ok
                /\ last'.warned
                /\ DocsOf(documentos', u) = {}
                /\ \A v \in Collaborators \ {u} :
                      Loadable(v, fault) =>
                         Cardinality(DocsOf(documentos', v))
                            = Len(DataRows(sheets[_get_user_sheet_name(v)]))]_vars

\* ----------------------------------------------------------------------
\* C17: two pulls in a row with the same identity and role and no mutation
\* of either store in between yield identical local table contents; the ids
\* generated for remote rows without an id are the same after the second
\* pull as after the first.
C17_ReloadIdempotent ==
    [][(last.op = "pull" /\ last.ok /\ last'.op = "pull" /\ last'.ok) =>
          /\ documentos' = documentos
          /\ usuarios' = usuarios
          /\ clientes' = clientes
          /\ colaborador_cliente' = colaborador_cliente]_vars

\* the number of rows of an associations table or worksheet that hold a pair
CountPair(rows, pair) == Cardinality({ i \in 1..Len(rows) : rows[i] = pair })

\* ----------------------------------------------------------------------
\* C18: an assignment called again with the same pairs, also after a pull
\* has reloaded the associations table, leaves exactly one local row per
\* pair and appends no pair a second time to the worksheet: a pair that an
\* earlier assignment left once in the table and once in the worksheet is
\* there once after the call.
C18_AssignIdempotent ==
    [][last'.op = "assign" =>
          \A pair \in last'.pairs :
             (CountPair(colaborador_cliente, pair) = 1
                /\ CountPair(assoc_sheet.rows, pair) = 1) =>
             (CountPair(colaborador_cliente', pair) = 1
                /\ CountPair(assoc_sheet'.rows, pair) = 1)]_vars

\* ----------------------------------------------------------------------
\* C19: when a remote write of an assignment or a removal (the append, the
\* deletion of a matching worksheet row) fails after the local table was
\* changed, the call returns failure and the local change is kept.
C19_RemoteWriteFailureReported ==
    [][(/\ last'.op \in {"assign", "unassign"}
        /\ last'.fault \in {"append_rows", "delete_rows"}
        /\ colaborador_cliente' # colaborador_cliente) =>
          /\ ~last'.ok
          /\ last'.op = "assign" =>
                \A pair \in last'.pairs : CountPair(colaborador_cliente', pair) > 0
          /\ last'.op = "unassign" =>
                \A pair \in last'.pairs :
                   \A i \in 1..Len(colaborador_cliente') :
                      ~(NoCaseEq(colaborador_cliente'[i][1], pair[1])
                          /\ colaborador_cliente'[i][2] = pair[2])]_vars

\* the last_sync_timestamp a users table or worksheet holds for a username
LastSyncOf(rows, username) ==
    { rows[i].last_sync_timestamp : i \in { j \in 1..Len(rows) : rows[j].username = username } }

\* ----------------------------------------------------------------------
\* C20: whenever a push returns success for an owner (a collaborator, in a
\* session whose pull has completed), the owner's last-sync time has been set
\* to the same new value in the users worksheet and in the local users table.
C20_PushUpdatesLastSync ==
    [][(last'.op = "push" /\ last'.ok /\ last'.username \in Collaborators /\ data_loaded) =>
          \E now_str \in Times :
             /\ LastSyncOf(users_sheet', last'.username) = {now_str}
             /\ LastSyncOf(usuarios', last'.username) = {now_str}]_vars

\* ----------------------------------------------------------------------
\* C21: after a push that returns success for an owner the unsaved-data flag
\* tells whether a Pending document of that owner remains in the cache; a
\* document created but left out of the push keeps the flag raised.
C21_FlagRecomputedByPush ==
    [][(last'.op = "push" /\ last'.ok) =>
          (unsaved_changes' <=>
             \E d \in documentos' :
                Lower(d.colaborador_username) = Lower(last'.username) /\ d.is_synced = 0)]_vars

\* a push has sent one document of an owner and left another one Pending
C21_Witness ==
    /\ last.op = "push" /\ last.ok /\ unsaved_changes
    /\ \E d \in documentos : d.id \in last.ids /\ d.is_synced = 1
    /\ \E d \in documentos :
          /\ d.colaborador_username = last.username
          /\ d.id \notin last.ids
          /\ d.is_synced = 0

\* the faults of a pull that completes: none, or a central worksheet that is
\* not in the spreadsheet when the pull asks for it
MissingCentral == {"none", "users_missing", "clients_missing", "assoc_missing"}

\* ----------------------------------------------------------------------
\* C22: after a completed pull each local central table (users, clients,
\* associations) holds exactly the rows of its remote collection at pull
\* time; rows held before that are no longer remote do not survive, also
\* when the remote collection is empty or does not exist.
C22_CentralTablesMirrorRemote ==
    [][\A i \in 1..Len(RemoteUsers), fault \in MissingCentral :
          LoadData(RemoteUsers[i].username, RemoteUsers[i].role, fault) =>
             /\ usuarios' = IF fault = "users_missing" THEN << >> ELSE users_sheet
             /\ clientes' = IF fault = "clients_missing" THEN {} ELSE Range(RemoteClients)
             /\ colaborador_cliente' =
                   IF fault = "assoc_missing" THEN << >> ELSE assoc_sheet.rows]_vars

\* the rows of the documents worksheets a pull of this identity selects
SelectedRemoteRows(username, role) ==
    UNION { Range(sheets[n].rows) : n \in Range(UserSheetsToLoad(users_sheet, username, role)) }

\* a local document is the copy of a worksheet row (a row without an id gets
\* a generated one)
CopyOf(d, r) ==
    /\ d.colaborador_username = r.colaborador_username
    /\ d.status = r.status
    /\ r.id # NoId => d.id = r.id

\* ----------------------------------------------------------------------
\* C23: after a completed pull the local documents table is exactly the
\* union of the rows of the role-selected remote collections (a collaborator:
\* their own; an administrator: every collaborator's) and every local
\* document is Synced; no document held before the pull remains unless it is
\* in one of those collections.
C23_DocumentsMirrorSelectedSheets ==
    [][\A i \in 1..Len(RemoteUsers) :
          LoadData(RemoteUsers[i].username, RemoteUsers[i].role, "none") =>
             LET remote == SelectedRemoteRows(RemoteUsers[i].username, RemoteUsers[i].role)
             IN  /\ \A d \in documentos' :
                       d.is_synced = 1 /\ \E r \in remote : CopyOf(d, r)
                 /\ \A r \in remote : \E d \in documentos' : CopyOf(d, r)]_vars

\* the id is the id of a row of some documents worksheet
InSomeSheet(sh, id) ==
    \E n \in SheetNames : \E k \in 1..Len(sh[n].rows) : sh[n].rows[k].id = id

\* ----------------------------------------------------------------------
\* C24: no operation deletes a document: a document created here is, after
\* every later pull, create, push and validate, still in the local cache or
\* in a remote collection, and no row is ever removed from a remote
\* documents collection.
C24_NoDocumentDeleted ==
    [][/\ \A d \in documentos :
             d.id \in created =>
                \/ \E e \in documentos' : e.id = d.id
                \/ InSomeSheet(sheets', d.id)
       /\ \A n \in SheetNames :
             /\ Len(sheets'[n].rows) >= Len(sheets[n].rows)
             /\ \A k \in 1..Len(sheets[n].rows) :
                   sheets'[n].rows[k].id = sheets[n].rows[k].id]_vars

\* a row of the associations worksheet is one of the pairs, the collaborator
\* compared without regard to letter case
RowOfPairs(row, pairs) ==
    \E pair \in pairs : NoCaseEq(row[1], pair[1]) /\ row[2] = pair[2]

\* the rows of the associations worksheet that are none of the pairs
OtherRows(rows, pairs) == SelectSeq(rows, LAMBDA row : ~RowOfPairs(row, pairs))

\* ----------------------------------------------------------------------
\* C25: a removal deletes the matching pairs locally, then the matching
\* worksheet rows from the highest row to the lowest: after it returns
\* success the associations worksheet holds no row of a requested pair and
\* every other row is still there, in its original order.
C25_UnassignRemovesRemoteRows ==
    [][(last'.op = "unassign" /\ last'.ok) =>
          /\ \A i \in 1..Len(colaborador_cliente') :
                ~RowOfPairs(colaborador_cliente'[i], last'.pairs)
          /\ \A k \in 1..Len(assoc_sheet'.rows) :
                ~RowOfPairs(assoc_sheet'.rows[k], last'.pairs)
          /\ assoc_sheet'.rows = OtherRows(assoc_sheet.rows, last'.pairs)]_vars

\* ----------------------------------------------------------------------
\* C26: a push that finds no worksheet for the owner creates it and writes
\* the canonical header before it appends a row, so every documents
\* worksheet pushes have created, failed pushes included, has the canonical
\* header as its first row: a worksheet comes into being with that header
\* and a worksheet that exists keeps its header.
C26_CanonicalHeader ==
    [][\A n \in SheetNames :
          sheets'[n].exists =>
             IF sheets[n].exists THEN sheets'[n].header = sheets[n].header
                                 ELSE sheets'[n].header = DOCS_COLS]_vars

\* the number of rows of the documents worksheets that hold an id
AppendedRows(sh, id) ==
    Cardinality({ <<n, k>> \in SheetNames \X (1..MaxPushRows) :
                    k <= Len(sh[n].rows) /\ sh[n].rows[k].id = id })

\* ----------------------------------------------------------------------
\* C27: across any sequence of creates and pushes, pushes whose owner
\* argument differs from the stored owner only in letter case included, no
\* document id is appended to the remote store more than once.
C27_NoIdAppendedTwice ==
    \A id \in AllIds : AppendedRows(sheets, id) <= 1

\* ----------------------------------------------------------------------
\* C28: whenever an assignment returns success every requested pair is in
\* the local associations table and in the associations worksheet, also when
\* the call retries an assignment whose append failed after the local insert.
C28_AssignSuccessBothSides ==
    [][(last'.op = "assign" /\ last'.ok) =>
          \A pair \in last'.pairs :
             /\ CountPair(colaborador_cliente', pair) > 0
             /\ CountPair(assoc_sheet'.rows, pair) > 0]_vars

\* ----------------------------------------------------------------------
\* C29: in every state between two operations of a session the unsaved-data
\* flag is true if and only if the local cache holds a Pending document of
\* the session's user (the one collaborator who creates documents here).
C29_FlagIffPending ==
    unsaved_changes <=> \E d \in documentos : d.is_synced = 0

\* ----------------------------------------------------------------------
\* C30: the login of a user of role Cliente with valid credentials whose
\* username is the name of a client of the remote clients collection
\* succeeds and triggers a pull, also in a new session whose cache has not
\* been loaded.
C30_ClientLoginPulls ==
    [][\A i \in 1..Len(users_sheet) :
          (/\ users_sheet[i].role = "Cliente"
           /\ ClienteIdOf(Range(RemoteClients), users_sheet[i].username) # Null
           /\ Login(users_sheet[i].username, users_sheet[i].role)) =>
             (last'.op = "pull" /\ last'.ok /\ data_loaded')]_vars

====
